---------------------------- MODULE Spec2Model ----------------------------
(***************************************************************************)
(* TripGo: the trip-logging server (server.js, models/Trip.js,             *)
(* models/UserData.js) and the sync of its service worker (public/sw.js)   *)
(* as a state machine.                                                     *)
(*                                                                         *)
(* Numbers are fixed-point: an integer n stands for n / 1000 (kilometres,   *)
(* or degrees for a coordinate).  A JavaScript value is a record           *)
(* [t |-> its type tag, v |-> its numeric value or 0].                      *)
(***************************************************************************)
EXTENDS Integers, Sequences, FiniteSets, TLC

\* One whole unit (1 km, 1 degree) in the fixed-point representation.
Unit == 10 * 100

(***************************************************************************)
(* JavaScript values as they arrive in a JSON request body.                *)
(***************************************************************************)
Undefined == [t |-> "undefined", v |-> 0]   \* the field is absent
Null      == [t |-> "null", v |-> 0]
NaN       == [t |-> "NaN", v |-> 0]
Num(n)    == [t |-> "number", v |-> n]
\* a string that does not read as a number, such as "abc"
Str       == [t |-> "string", v |-> 0]
\* a string that reads as the number n / 1000, such as "5"
NumStr(n) == [t |-> "numstr", v |-> n]

\* typeof value
TypeOf(x) ==
    CASE x.t \in {"number", "NaN"} -> "number"
      [] x.t \in {"string", "numstr"} -> "string"
      [] x.t = "null" -> "object"
      [] OTHER -> "undefined"

\* isNaN(value) applied to a value whose typeof is "number"
IsNaN(x) == x.t = "NaN"

\* ToNumber(value), the coercion of the relational and arithmetic operators
ToNumber(x) ==
    CASE x.t \in {"number", "numstr"} -> Num(x.v)
      [] x.t = "null" -> Num(0)
      [] OTHER -> NaN

\* the truthiness of a value: 0, NaN, null and undefined are falsy, and a
\* string is truthy unless empty (Str and NumStr are non-empty strings)
Truthy(x) ==
    CASE x.t = "number" -> x.v # 0
      [] x.t \in {"string", "numstr"} -> TRUE
      [] OTHER -> FALSE

\* Math.floor and Math.ceil on a fixed-point number
Floor(n) == (n \div Unit) * Unit
Ceil(n)  == -Floor(-n)

\* 0.5, the boundary of the rounding rule
Half == 500

roundDistanceStrict(value) ==
    IF TypeOf(value) # "number" \/ IsNaN(value) THEN Num(0)
    ELSE LET decimal == value.v - Floor(value.v)
         IN  IF decimal < Half THEN Num(Floor(value.v)) ELSE Num(Ceil(value.v))

\* roundDistance(value): the custom rounding of server.js
roundDistance(value) ==
    IF TypeOf(value) # "number" \/ IsNaN(value) THEN Num(0)
    ELSE LET decimal == value.v - Floor(value.v)
         IN  IF decimal <= Half THEN Num(Floor(value.v)) ELSE Num(Ceil(value.v))

(***************************************************************************)
(* calculateDistance: the Haversine formula.  Angles and the values of the  *)
(* trigonometric functions are fixed-point with TrigScale for 1, which      *)
(* gives a distance of hundreds of km to about 0.1 km; Math.sin, Math.cos,  *)
(* Math.sqrt and Math.atan2 are computed by their series.  As in IEEE       *)
(* arithmetic, every operation is symmetric in the sign of its argument     *)
(* (the magnitude is rounded).  Products and quotients are taken digit      *)
(* group by digit group, which keeps every intermediate value in 32 bits.   *)
(***************************************************************************)
TrigScale == 1000 * 1000
TrigBase  == 10 * 100        \* TrigScale = TrigBase^2

Abs(a) == IF a >= 0 THEN a ELSE -a
Sign(a) == IF a >= 0 THEN 1 ELSE -1

\* a / b rounded to the nearest integer, for b > 0
RDiv(a, b) == Sign(a) * ((2 * Abs(a) + b) \div (2 * b))

\* a * b, for fixed-point a and b
Mul(a, b) ==
    LET ah == Abs(a) \div TrigBase
        al == Abs(a) % TrigBase
        bh == Abs(b) \div TrigBase
        bl == Abs(b) % TrigBase
    IN  Sign(a) * Sign(b)
          * (ah * bh + RDiv(ah * bl + al * bh + RDiv(al * bl, TrigBase), TrigBase))

\* the quotient q of the long division of r by d, continued for k more decimal digits
RECURSIVE LongDiv(_, _, _, _)
LongDiv(q, r, d, k) ==
    IF k = 0 THEN q + (IF 2 * r >= d THEN 1 ELSE 0)
    ELSE LongDiv(10 * q + (10 * r) \div d, (10 * r) % d, d, k - 1)

\* a / b, for fixed-point a and b > 0
Div(a, b) == Sign(a) * LongDiv(Abs(a) \div b, Abs(a) % b, b, 6)

\* degrees (fixed-point, Unit for one degree) * Math.PI / 180
ToRadians(d) ==
    LET whole == Abs(d) \div Unit
        frac  == Abs(d) % Unit
    IN  Sign(d) * (RDiv(whole * 1745329, 100) + RDiv(frac * 17453, Unit))

\* term + the following terms of an alternating power series in x, x2 = x^2,
\* the term after `term` being -term * x2 / ((k + 1) * (k + 2))
RECURSIVE Series(_, _, _)
Series(term, x2, k) ==
    IF term = 0 \/ k > 30 THEN 0
    ELSE term + Series(-RDiv(Mul(term, x2), (k + 1) * (k + 2)), x2, k + 2)

MathSin(x) == Series(x, Mul(x, x), 1)
MathCos(x) == Series(TrigScale, Mul(x, x), 0)

\* m * m <= a exactly, for fixed-point 0 <= m <= 1 and a
SquareLeq(m, a) ==
    LET mh == m \div TrigBase
        ml == m % TrigBase
    IN  mh * mh + (2 * mh * ml * TrigBase + ml * ml + TrigScale - 1) \div TrigScale <= a

RECURSIVE Bisect(_, _, _)
Bisect(a, lo, hi) ==
    IF hi - lo <= 1 THEN lo
    ELSE LET mid == (lo + hi) \div 2
         IN  IF SquareLeq(mid, a) THEN Bisect(a, mid, hi) ELSE Bisect(a, lo, mid)

\* Math.sqrt(a) for 0 <= a <= 1
MathSqrt(a) == Bisect(a, 0, TrigScale + 1)

\* u - u^3/3 + u^5/5 - ..., from the term of power p (odd index k)
RECURSIVE AtanSeries(_, _, _)
AtanSeries(p, u2, k) ==
    IF p = 0 \/ k > 30 THEN 0
    ELSE RDiv(p, k) + AtanSeries(-Mul(p, u2), u2, k + 2)

\* Math.atan(t) for 0 <= t <= 1: above 2 - sqrt(3) the argument is reduced by
\* atan(t) = pi/6 + atan((t * sqrt(3) - 1) / (sqrt(3) + t))
MathAtan(t) ==
    IF t > 267949
    THEN LET u == Div(Mul(t, 1732051) - TrigScale, 1732051 + t)
         IN  523599 + AtanSeries(u, Mul(u, u), 1)
    ELSE AtanSeries(t, Mul(t, t), 1)

\* Math.atan2(y, x) for y >= 0 and x >= 0
MathAtan2(y, x) ==
    IF y = 0 THEN 0
    ELSE IF y <= x THEN MathAtan(Div(y, x))
    ELSE 1570796 - MathAtan(Div(x, y))

\* Radius of the Earth in km
R == 6371

\* Math.round(distance * 100) / 100 of a fixed-point distance
RoundTo2(d) == ((d + 5) \div 10) * 10

\* R * c in fixed-point km, for an angle c
TimesR(c) == R * (c \div Unit) + RDiv(R * (c % Unit), Unit)

calculateDistanceAsym(lat1, lon1, lat2, lon2) ==
    LET dLat == ToRadians(lat2 - lat1)
        dLon == ToRadians(lon2 - lon1)
        a    == Mul(MathSin(RDiv(dLat, 2)), MathSin(RDiv(dLat, 2)))
                + Mul(Mul(MathCos(ToRadians(lat1)), MathCos(ToRadians(lat1))),
                      Mul(MathSin(RDiv(dLon, 2)), MathSin(RDiv(dLon, 2))))
        c    == 2 * MathAtan2(MathSqrt(a), MathSqrt(TrigScale - a))
    IN  RoundTo2(TimesR(c))

\* calculateDistance(lat1, lon1, lat2, lon2) on numbers, in fixed-point km
calculateDistance(lat1, lon1, lat2, lon2) ==
    LET dLat == ToRadians(lat2 - lat1)
        dLon == ToRadians(lon2 - lon1)
        a    == Mul(MathSin(RDiv(dLat, 2)), MathSin(RDiv(dLat, 2)))
                + Mul(Mul(MathCos(ToRadians(lat1)), MathCos(ToRadians(lat2))),
                      Mul(MathSin(RDiv(dLon, 2)), MathSin(RDiv(dLon, 2))))
        c    == 2 * MathAtan2(MathSqrt(a), MathSqrt(TrigScale - a))
    IN  RoundTo2(TimesR(c))

(***************************************************************************)
(* The state: the user's UserData document, the Trip collection, and the    *)
(* requests in flight.  One user is modelled; a request handler runs in a   *)
(* slot of Slots and yields at its awaits, where the other slot may run.    *)
(***************************************************************************)
VARIABLES
    userData,    \* the UserData document: currentOdometer, activeTrip
    trips,       \* the Trip collection: the finalized trips
    clock,       \* Date.now(), which gives a started trip its id
    nextDocId,   \* the _id of the next document inserted into the collection
    pc,          \* per slot: where its handler stands
    local,       \* per slot: the handler's local variables
    response,    \* per slot: the last response sent
    requests,    \* the number of requests received
    arg,         \* the argument of the helper function under test
    ret,         \* its result, Undefined until it has been called
    users,       \* the User collection: the registered accounts
    tripData,    \* the service worker's IndexedDB store of trip data awaiting sync
    sync,        \* the service worker's run of syncTripData
    cache,       \* the service worker's cache CACHE_NAME: per URL the response stored
    events,      \* per fetch event in flight: where the fetch handler stands
    fetches      \* the number of responses the network has given

vars == <<userData, trips, clock, nextDocId, pc, local, response, requests, arg, ret,
          users, tripData, sync, cache, events, fetches>>

Slots == {"s1", "s2"}

\* the number of requests the server receives in a run
MaxRequests == 4

\* what getAreaFromCoordinates may resolve to
Areas == {"Unknown Area", "Sydney"}

\* the positions a request may carry; NoFix carries no coordinates
Sydney    == [latitude |-> Num(-33869), longitude |-> Num(151209)]
Melbourne == [latitude |-> Num(-37814), longitude |-> Num(144963)]
NoFix     == [latitude |-> Undefined, longitude |-> Undefined]
\* positions on the equator and on the prime meridian: a coordinate of 0
Equator   == [latitude |-> Num(0), longitude |-> Num(151209)]
Greenwich == [latitude |-> Num(51477), longitude |-> Num(0)]
Fixes     == {Sydney, Melbourne}

\* calculateDistance between the positions of Fixes, computed once
Distances ==
    {<<from, to, calculateDistance(from.latitude.v, from.longitude.v,
                                   to.latitude.v, to.longitude.v)>> :
        from \in Fixes, to \in Fixes}

\* calculateDistance(lat1, lon1, lat2, lon2) for coordinates of Fixes
Distance(lat1, lon1, lat2, lon2) ==
    LET from == [latitude |-> lat1, longitude |-> lon1]
        to   == [latitude |-> lat2, longitude |-> lon2]
    IN  (CHOOSE d \in Distances : d[1] = from /\ d[2] = to)[3]

Idle == [handler |-> "none"]

\* an email as typed: its text in lower case without the spaces around it,
\* whether it was typed with upper-case letters, and whether with spaces
\* around it
Email(text, upper, padded) == [text |-> text, upper |-> upper, padded |-> padded]

\* email.toLowerCase() and email.trim()
ToLowerCase(email) == [email EXCEPT !.upper = FALSE]
Trim(email) == [email EXCEPT !.padded = FALSE]

\* the email of the user whose trips are modelled, as the token carries it
Driver == Email("driver@tripgo.io", FALSE, FALSE)

\* a document of the User collection
Account(docId, email) == [docId |-> docId, email |-> email]

\* the service worker between two runs of syncTripData; `runs` counts the
\* runs started, `posted` lists the items the latest run sent and what came back
NoRun == [pc |-> "idle", storedData |-> <<>>, i |-> 0, posted |-> <<>>, runs |-> 0]

\* res.status(status).json({ error }) or res.json({ success: true, message })
Response(status, message) == [status |-> status, message |-> message]
NoResponse == Response(0, "")

\* the URLs the pages request; the first is put into the cache at install
Urls == {"/index.html", "/manifest.json", "/api/trips"}
urlsToCache == {"/index.html"}

\* a response: its status and the version of the content it carries
Fetched(status, body) == [status |-> status, body |-> body]

\* the cache after the install event: cache.addAll(urlsToCache)
Installed == [url \in Urls |-> IF url \in urlsToCache THEN Fetched(200, 0) ELSE Undefined]

\* the fetch events that can be in flight together
Events == {"e1", "e2"}

\* a promise not settled (or never made), and the rejection of fetch()
Pending == [t |-> "pending", v |-> 0]
Failed  == [t |-> "TypeError", v |-> 0]

NoRequest == [url |-> "", method |-> ""]
NoEvent == [pc |-> "idle", request |-> NoRequest, network |-> Pending, matched |-> Pending,
            responded |-> Pending]

TypeOK ==
    /\ userData.currentOdometer \in Int
    /\ requests \in 0..MaxRequests
    /\ \A s \in Slots : pc[s] \in {"idle", "start_save", "end_saveTrip", "end_saveUser",
                                   "route_save", "register_save"}
    /\ \A s \in Slots : response[s].status \in {0, 200, 400, 404, 500}

Init ==
    /\ userData = [currentOdometer |-> 0, activeTrip |-> Null]
    /\ trips = {}
    /\ clock = 0
    /\ nextDocId = 1
    /\ pc = [s \in Slots |-> "idle"]
    /\ local = [s \in Slots |-> Idle]
    /\ response = [s \in Slots |-> NoResponse]
    /\ requests = 0
    /\ arg = Undefined
    /\ ret = Undefined
    /\ users = {Account(0, Driver)}
    /\ tripData = {}
    /\ sync = NoRun
    /\ cache = Installed
    /\ events = [e \in Events |-> NoEvent]
    /\ fetches = 0

\* a request arrives at a free slot; the server receives `limit` requests in a run
Receive(s, limit) ==
    /\ pc[s] = "idle"
    /\ requests < limit
    /\ requests' = requests + 1

\* the handler of slot s responds and ends
Respond(s, status, message) ==
    /\ response' = [response EXCEPT ![s] = Response(status, message)]
    /\ pc' = [pc EXCEPT ![s] = "idle"]
    /\ local' = [local EXCEPT ![s] = Idle]

\* the handler of slot s goes on to `label` with the local variables `l`
Goto(s, label, l) ==
    /\ pc' = [pc EXCEPT ![s] = label]
    /\ local' = [local EXCEPT ![s] = l]
    /\ UNCHANGED response

(***************************************************************************)
(* POST /api/odometer                                                       *)
(***************************************************************************)
\* x > n, for a request value x and a number n
GreaterThan(x, n) == ToNumber(x).t = "number" /\ ToNumber(x).v > n
LessThan(x, n)    == ToNumber(x).t = "number" /\ ToNumber(x).v < n

\* !odometer || isNaN(odometer) || parseFloat(odometer) < 0
OdometerInvalid(odometer) ==
    \/ ~Truthy(odometer)
    \/ ToNumber(odometer).t = "NaN"
    \/ LessThan(odometer, 0)

\* The handler reads the document, assigns currentOdometer and saves it: what
\* it writes does not depend on what it read, so it is one step.
PostOdometer(s, limit, odometer, saved) ==
    /\ Receive(s, limit)
    /\ IF OdometerInvalid(odometer)
       THEN Respond(s, 400, "Valid odometer reading is required") /\ UNCHANGED userData
       ELSE IF ~saved
       THEN Respond(s, 500, "Failed to update odometer reading") /\ UNCHANGED userData
       ELSE /\ userData' = [userData EXCEPT !.currentOdometer = ToNumber(odometer).v]
            /\ Respond(s, 200, "success")
    /\ UNCHANGED <<trips, clock, nextDocId, arg, ret, users, tripData, sync, cache, events, fetches>>

(***************************************************************************)
(* POST /api/trip/start                                                     *)
(***************************************************************************)
\* !latitude || !longitude
CoordinatesMissing(pos) == ~Truthy(pos.latitude) \/ ~Truthy(pos.longitude)

\* the newTrip object
NewTrip(pos, startArea) ==
    [id |-> clock + 1,
     startOdometer |-> userData.currentOdometer,
     startLatitude |-> pos.latitude,
     startLongitude |-> pos.longitude,
     startArea |-> startArea,
     active |-> TRUE]

StartReadUnchecked(s, limit, pos, startArea) ==
    /\ Receive(s, limit)
    /\ IF CoordinatesMissing(pos)
       THEN Respond(s, 400, "Location coordinates are required") /\ UNCHANGED clock
       ELSE /\ Goto(s, "start_save", [handler |-> "start", newTrip |-> NewTrip(pos, startArea)])
            /\ clock' = clock + 1
    /\ UNCHANGED <<userData, trips, nextDocId, arg, ret, users, tripData, sync,
                   cache, events, fetches>>

\* from the request to the await of getAreaFromCoordinates
StartRead(s, limit, pos, startArea) ==
    /\ Receive(s, limit)
    /\ IF CoordinatesMissing(pos)
       THEN Respond(s, 400, "Location coordinates are required") /\ UNCHANGED clock
       ELSE IF userData.activeTrip # Null
       THEN /\ Respond(s, 400, "Please end current trip before starting a new one")
            /\ UNCHANGED clock
       ELSE /\ Goto(s, "start_save", [handler |-> "start", newTrip |-> NewTrip(pos, startArea)])
            /\ clock' = clock + 1
    /\ UNCHANGED <<userData, trips, nextDocId, arg, ret, users, tripData, sync,
                   cache, events, fetches>>

StartSaveGuarded(s, saved) ==
    /\ pc[s] = "start_save"
    /\ IF saved /\ userData.activeTrip = Null
       THEN /\ userData' = [userData EXCEPT !.activeTrip = local[s].newTrip]
            /\ Respond(s, 200, "success")
       ELSE Respond(s, 500, "Failed to start trip") /\ UNCHANGED userData
    /\ UNCHANGED <<trips, clock, nextDocId, requests, arg, ret, users, tripData, sync,
                   cache, events, fetches>>

\* userData.activeTrip = newTrip; await userData.save()
StartSave(s, saved) ==
    /\ pc[s] = "start_save"
    /\ IF saved
       THEN /\ userData' = [userData EXCEPT !.activeTrip = local[s].newTrip]
            /\ Respond(s, 200, "success")
       ELSE Respond(s, 500, "Failed to start trip") /\ UNCHANGED userData
    /\ UNCHANGED <<trips, clock, nextDocId, requests, arg, ret, users, tripData, sync,
                   cache, events, fetches>>

(***************************************************************************)
(* POST /api/trip/end                                                       *)
(***************************************************************************)
\* 0.01 km, above which a GPS distance is used
GpsThreshold == 10

\* userProvidedEndOdometer !== null && userProvidedEndOdometer !== undefined
Provided(x) == x # Null /\ x # Undefined

ChooseDistanceGpsFirst(userProvidedEndOdometer, gpsDistance, actualTravelledDistance, straightLineDistance) ==
    IF Truthy(gpsDistance) /\ GreaterThan(gpsDistance, GpsThreshold)
    THEN [finalDistance |-> gpsDistance, distanceSource |-> "GPS tracking"]
    ELSE IF Provided(userProvidedEndOdometer)
    THEN [finalDistance |-> actualTravelledDistance, distanceSource |-> "odometer reading"]
    ELSE [finalDistance |-> straightLineDistance,
          distanceSource |-> "straight-line calculation"]

ChooseDistanceAtThreshold(userProvidedEndOdometer, gpsDistance, actualTravelledDistance, straightLineDistance) ==
    IF Provided(userProvidedEndOdometer)
    THEN [finalDistance |-> actualTravelledDistance, distanceSource |-> "odometer reading"]
    ELSE IF Truthy(gpsDistance) /\ GreaterThan(gpsDistance, GpsThreshold - 1)
    THEN [finalDistance |-> gpsDistance, distanceSource |-> "GPS tracking"]
    ELSE [finalDistance |-> straightLineDistance,
          distanceSource |-> "straight-line calculation"]

\* finalDistance and distanceSource: the distance to use
ChooseDistance(userProvidedEndOdometer, gpsDistance, actualTravelledDistance, straightLineDistance) ==
    IF Provided(userProvidedEndOdometer)
    THEN [finalDistance |-> actualTravelledDistance, distanceSource |-> "odometer reading"]
    ELSE IF Truthy(gpsDistance) /\ GreaterThan(gpsDistance, GpsThreshold)
    THEN [finalDistance |-> gpsDistance, distanceSource |-> "GPS tracking"]
    ELSE [finalDistance |-> straightLineDistance,
          distanceSource |-> "straight-line calculation"]

NewEndOdometerUnrounded(userProvidedEndOdometer, currentOdometer, roundedDistance) ==
    IF Provided(userProvidedEndOdometer)
    THEN IF TypeOf(userProvidedEndOdometer) = "number" /\ ~IsNaN(userProvidedEndOdometer)
         THEN userProvidedEndOdometer ELSE Num(0)
    ELSE Num(currentOdometer + roundedDistance.v)

\* newEndOdometer: the end odometer from the user's reading or from the distance
NewEndOdometer(userProvidedEndOdometer, currentOdometer, roundedDistance) ==
    IF Provided(userProvidedEndOdometer)
    THEN roundDistance(userProvidedEndOdometer)
    ELSE roundDistance(Num(currentOdometer + roundedDistance.v))

\* gpsDistance || 0
OrZero(x) == IF Truthy(x) THEN x ELSE Num(0)

\* the completedTrip object
CompletedTrip(trip, pos, gpsDistance, endArea, choice, roundedDistance, newEndOdometer) ==
    [id |-> trip.id,
     startOdometer |-> trip.startOdometer,
     startLatitude |-> trip.startLatitude,
     startLongitude |-> trip.startLongitude,
     startArea |-> trip.startArea,
     endLatitude |-> pos.latitude,
     endLongitude |-> pos.longitude,
     endArea |-> endArea,
     gpsDistance |-> OrZero(gpsDistance),
     endOdometer |-> newEndOdometer.v,
     totalDistance |-> roundedDistance.v,
     distanceSource |-> choice.distanceSource,
     active |-> FALSE]

\* the request body of POST /api/trip/end
EndRequest(pos, gpsDistance, actualTravelledDistance, userProvidedEndOdometer) ==
    [latitude |-> pos.latitude,
     longitude |-> pos.longitude,
     gpsDistance |-> gpsDistance,
     actualTravelledDistance |-> actualTravelledDistance,
     userProvidedEndOdometer |-> userProvidedEndOdometer]

\* User.findOne({ email }): the account with that email, or null
FindUser(email) ==
    IF \E u \in users : u.email = email
    THEN CHOOSE u \in users : u.email = email
    ELSE Null

\* From the request to the awaits before the trip is saved: the checks, the
\* distance, its rounding and the end odometer, all from the UserData document
\* as getUserData returned it.
EndRead(s, limit, req, endArea) ==
    /\ Receive(s, limit)
    /\ IF CoordinatesMissing(req)
       THEN Respond(s, 400, "Location coordinates are required")
       ELSE IF userData.activeTrip = Null
       THEN Respond(s, 400, "No active trip found")
       ELSE LET trip == userData.activeTrip
                straightLineDistance ==
                    Num(Distance(trip.startLatitude, trip.startLongitude,
                                 req.latitude, req.longitude))
                choice == ChooseDistance(req.userProvidedEndOdometer, req.gpsDistance,
                                         req.actualTravelledDistance, straightLineDistance)
                roundedDistance == roundDistance(choice.finalDistance)
                newEndOdometer ==
                    NewEndOdometer(req.userProvidedEndOdometer, userData.currentOdometer,
                                   roundedDistance)
            IN  Goto(s, "end_saveTrip",
                     [handler |-> "end",
                      req |-> req,
                      user |-> FindUser(Driver),
                      currentOdometer |-> userData.currentOdometer,
                      straightLineDistance |-> straightLineDistance,
                      finalDistance |-> choice.finalDistance,
                      newEndOdometer |-> newEndOdometer.v,
                      completedTrip |->
                          CompletedTrip(trip, req, req.gpsDistance, endArea, choice,
                                        roundedDistance, newEndOdometer)])
    /\ UNCHANGED <<userData, trips, clock, nextDocId, arg, ret, users, tripData, sync,
                   cache, events, fetches>>

\* Whether a value casts to the Number of a tripSchema path: a string that
\* does not read as a number fails the cast, and the save with it.
CastsToNumber(x) == x.t \in {"number", "numstr", "null", "undefined"}

\* the document new Trip(completedTrip) holds: the paths of tripSchema, cast
TripDocument(completedTrip, docId) ==
    [docId |-> docId,
     id |-> completedTrip.id,
     startOdometer |-> completedTrip.startOdometer,
     startLatitude |-> completedTrip.startLatitude.v,
     startLongitude |-> completedTrip.startLongitude.v,
     startArea |-> completedTrip.startArea,
     endLatitude |-> completedTrip.endLatitude.v,
     endLongitude |-> completedTrip.endLongitude.v,
     endArea |-> completedTrip.endArea,
     gpsDistance |-> completedTrip.gpsDistance.v,
     endOdometer |-> completedTrip.endOdometer,
     totalDistance |-> completedTrip.totalDistance,
     active |-> completedTrip.active]

\* const tripDoc = new Trip(completedTrip); await tripDoc.save()
EndSaveTrip(s, saved) ==
    /\ pc[s] = "end_saveTrip"
    /\ IF saved /\ CastsToNumber(local[s].completedTrip.gpsDistance)
       THEN /\ trips' = trips \cup {TripDocument(local[s].completedTrip, nextDocId)}
            /\ nextDocId' = nextDocId + 1
            /\ Goto(s, "end_saveUser", local[s])
       ELSE Respond(s, 500, "Failed to end trip") /\ UNCHANGED <<trips, nextDocId>>
    /\ UNCHANGED <<userData, clock, requests, arg, ret, users, tripData, sync, cache, events, fetches>>

\* userData.currentOdometer = newEndOdometer; userData.activeTrip = null;
\* await userData.save(); then the CSV row, whose user.fullName throws when
\* no account was found, and the response
EndSaveUser(s, saved) ==
    /\ pc[s] = "end_saveUser"
    /\ IF saved
       THEN /\ userData' = [currentOdometer |-> local[s].newEndOdometer, activeTrip |-> Null]
            /\ IF local[s].user = Null
               THEN Respond(s, 500, "Failed to end trip")
               ELSE Respond(s, 200, "Trip ended successfully!")
       ELSE Respond(s, 500, "Failed to end trip") /\ UNCHANGED userData
    /\ UNCHANGED <<trips, clock, nextDocId, requests, arg, ret, users, tripData, sync,
                   cache, events, fetches>>

(***************************************************************************)
(* POST /api/trip/route                                                     *)
(***************************************************************************)
\* the number of route points kept
RoutePointLimit == 1000

\* trip.routePoints, or the empty list when the trip has none yet
RoutePoints(trip) == IF "routePoints" \in DOMAIN trip THEN trip.routePoints ELSE <<>>

\* points.slice(-n) when points.length > n
LastN(points, n) ==
    IF Len(points) > n THEN SubSeq(points, Len(points) - n + 1, Len(points)) ELSE points

\* the active trip of the handler's document after the push and the slice
WithRoutePoint(trip, point) ==
    [field \in DOMAIN trip \cup {"routePoints"} |->
        IF field = "routePoints"
        THEN LastN(Append(RoutePoints(trip), point), RoutePointLimit)
        ELSE trip[field]]

\* document.save(): the stored document with the paths that were assigned on
\* `document` since it was read.  A value of a Mixed path that is changed in
\* place (a property set on it, a push into one of its arrays) does not mark
\* the path as modified, and the save leaves it out.
Save(stored, document, modified) ==
    [path \in DOMAIN stored |-> IF path \in modified THEN document[path] ELSE stored[path]]

\* from the request to the await of userData.save(): the checks, and the
\* point pushed into userData.activeTrip.routePoints, in place
RouteRead(s, limit, pos, accuracy) ==
    /\ Receive(s, limit)
    /\ IF CoordinatesMissing(pos)
       THEN Respond(s, 400, "Location coordinates are required")
       ELSE IF userData.activeTrip = Null
       THEN Respond(s, 400, "No active trip found")
       ELSE LET point == [latitude |-> pos.latitude, longitude |-> pos.longitude,
                          accuracy |-> OrZero(accuracy)]
            IN  Goto(s, "route_save",
                     [handler |-> "route",
                      point |-> point,
                      document |-> [userData EXCEPT
                                       !.activeTrip = WithRoutePoint(userData.activeTrip, point)],
                      modified |-> {}])
    /\ UNCHANGED <<userData, trips, clock, nextDocId, arg, ret, users, tripData, sync,
                   cache, events, fetches>>

\* await userData.save(); res.json({ success: true })
RouteSave(s, saved) ==
    /\ pc[s] = "route_save"
    /\ IF saved
       THEN /\ userData' = Save(userData, local[s].document, local[s].modified)
            /\ Respond(s, 200, "success")
       ELSE Respond(s, 500, "Failed to update trip route") /\ UNCHANGED userData
    /\ UNCHANGED <<trips, clock, nextDocId, requests, arg, ret, users, tripData, sync,
                   cache, events, fetches>>

(***************************************************************************)
(* POST /api/register                                                       *)
(***************************************************************************)
\* isValidEmail(email): the texts that match emailRegex
WellFormed == {"ann@tripgo.io", "driver@tripgo.io"}
isValidEmail(email) == email.text \in WellFormed

\* the request body of POST /api/register: the email (Undefined when absent),
\* the length of the password (0 when absent) and the full name ("" when
\* absent, " " when blank)
RegisterRequest(email, passwordLength, fullName) ==
    [email |-> email, passwordLength |-> passwordLength, fullName |-> fullName]

\* user.save(): the User collection with the new account.  The collection
\* takes any document, one whose email it already holds included.
InsertUser(account) == users \cup {account}

\* from the request, through the validation, to the awaits after
\* User.findOne({ email: emailKey })
RegisterRead(s, limit, body) ==
    /\ Receive(s, limit)
    /\ IF \/ body.email \in {Undefined, Email("", FALSE, FALSE)}
          \/ body.passwordLength = 0
          \/ body.fullName = ""
       THEN Respond(s, 400, "Email, password, and full name are required")
       ELSE IF body.email.text = ""
       THEN Respond(s, 400, "Email cannot be empty")
       ELSE IF ~isValidEmail(Trim(body.email))
       THEN Respond(s, 400, "Please enter a valid email address (e.g., user@example.com)")
       ELSE IF body.fullName = " "
       THEN Respond(s, 400, "Full name cannot be empty")
       ELSE IF body.passwordLength < 6
       THEN Respond(s, 400, "Password must be at least 6 characters long")
       ELSE IF body.passwordLength > 50
       THEN Respond(s, 400, "Password must be less than 50 characters")
       ELSE LET emailKey == Trim(ToLowerCase(body.email))
            IN  IF FindUser(emailKey) # Null
                THEN Respond(s, 400, "An account with this email already exists")
                ELSE Goto(s, "register_save", [handler |-> "register", emailKey |-> emailKey])
    /\ UNCHANGED <<userData, trips, clock, nextDocId, arg, ret, users, tripData, sync,
                   cache, events, fetches>>

\* await bcrypt.hash; await user.save(); await getUserData(emailKey), which
\* creates the user-data document of the new account; the response
RegisterSave(s, saved, initialised) ==
    /\ pc[s] = "register_save"
    /\ IF saved
       THEN /\ users' = InsertUser(Account(nextDocId, local[s].emailKey))
            /\ nextDocId' = nextDocId + 1
            /\ IF initialised
               THEN Respond(s, 200, "Account created successfully! Please sign in.")
               ELSE Respond(s, 500, "Registration failed. Please try again.")
       ELSE /\ Respond(s, 500, "Registration failed. Please try again.")
            /\ UNCHANGED <<users, nextDocId>>
    /\ UNCHANGED <<userData, trips, clock, requests, arg, ret, tripData, sync, cache, events, fetches>>

(***************************************************************************)
(* DELETE /api/trip/:tripId                                                 *)
(***************************************************************************)
\* Trip.findOneAndDelete({ id: parseInt(tripId), userId }): one of the
\* documents with that id is deleted
DeleteTrip(s, limit, tripId) ==
    /\ Receive(s, limit)
    /\ IF \E d \in trips : d.id = tripId
       THEN /\ \E d \in trips : d.id = tripId /\ trips' = trips \ {d}
            /\ Respond(s, 200, "Trip deleted successfully")
       ELSE Respond(s, 404, "Trip not found") /\ UNCHANGED trips
    /\ UNCHANGED <<userData, clock, nextDocId, arg, ret, users, tripData, sync,
                   cache, events, fetches>>

(***************************************************************************)
(* POST /update-trip-areas                                                  *)
(***************************************************************************)
\* the query: the trips whose startArea or endArea is missing
MissingArea(area) == area = "Unknown Area"
NeedsAreas(trip) == MissingArea(trip.startArea) \/ MissingArea(trip.endArea)

UpdatedAreasReset(trip, geocoded) ==
    [trip EXCEPT
        !.startArea = IF trip.startLatitude # 0 /\ trip.startLongitude # 0
                         /\ MissingArea(trip.startArea)
                      THEN geocoded.startArea ELSE @,
        !.endArea = IF trip.endLatitude # 0 /\ trip.endLongitude # 0
                       /\ MissingArea(trip.endArea)
                    THEN geocoded.endArea ELSE @,
        !.active = TRUE]

\* the body of the loop: the trip with the areas its coordinates resolve to
UpdatedAreas(trip, geocoded) ==
    [trip EXCEPT
        !.startArea = IF trip.startLatitude # 0 /\ trip.startLongitude # 0
                         /\ MissingArea(trip.startArea)
                      THEN geocoded.startArea ELSE @,
        !.endArea = IF trip.endLatitude # 0 /\ trip.endLongitude # 0
                       /\ MissingArea(trip.endArea)
                    THEN geocoded.endArea ELSE @]

\* geocode: for each trip, what getAreaFromCoordinates resolves its start and
\* its end coordinates to
UpdateTripAreas(s, limit, geocode) ==
    /\ Receive(s, limit)
    /\ trips' = {IF NeedsAreas(d) THEN UpdatedAreas(d, geocode[d]) ELSE d : d \in trips}
    /\ Respond(s, 200, "Successfully updated trips with area names")
    /\ UNCHANGED <<userData, clock, nextDocId, arg, ret, users, tripData, sync,
                   cache, events, fetches>>

(***************************************************************************)
(* The server: requests from the user, two of them in flight at most.       *)
(***************************************************************************)
\* A step of the handler in slot s, for requests drawn from `inputs`: how many
\* the server receives, and what they may carry.
Handle(s, inputs) ==
    \/ \E odometer \in inputs.odometers, saved \in BOOLEAN :
          PostOdometer(s, inputs.limit, odometer, saved)
    \/ \E pos \in inputs.startPositions, startArea \in inputs.areas :
          StartRead(s, inputs.limit, pos, startArea)
    \/ \E saved \in BOOLEAN : StartSave(s, saved)
    \/ \E pos \in inputs.endPositions, gpsDistance \in inputs.gpsDistances,
          actual \in inputs.actuals, endOdometer \in inputs.endOdometers,
          endArea \in inputs.areas :
          EndRead(s, inputs.limit, EndRequest(pos, gpsDistance, actual, endOdometer), endArea)
    \/ \E saved \in BOOLEAN : EndSaveTrip(s, saved)
    \/ \E saved \in BOOLEAN : EndSaveUser(s, saved)
    \/ \E tripId \in 0..clock : DeleteTrip(s, inputs.limit, tripId)
    \/ \E geocode \in [trips -> [startArea : inputs.areas, endArea : inputs.areas]] :
          UpdateTripAreas(s, inputs.limit, geocode)

\* what the requests of the concurrent server carry
Inputs ==
    [limit          |-> MaxRequests,
     startPositions |-> {Sydney, NoFix},
     endPositions   |-> {Sydney, NoFix},
     odometers      |-> {Undefined, Num(100000)},
     gpsDistances   |-> {Num(7600)},
     actuals        |-> {Num(-5000)},
     endOdometers   |-> {Undefined, Num(50000)},
     areas          |-> Areas]

Next == \E s \in Slots : Handle(s, Inputs)

Spec == Init /\ [][Next]_vars

(***************************************************************************)
(* The server with one request at a time, and requests that carry every     *)
(* kind of value: absent, null, numbers on both sides of each boundary of   *)
(* the handlers, and strings.                                               *)
(***************************************************************************)
\* the number of requests the sequential server receives in a run
SeqRequests == 3

SeqInputs ==
    [limit          |-> SeqRequests,
     startPositions |-> {Sydney, NoFix},
     endPositions   |-> {Sydney, Melbourne, NoFix},
     odometers      |-> {Undefined, Num(-1000), Num(10700), Str},
     gpsDistances   |-> {Undefined, Null, Num(0), Num(5), Num(10), Num(11), Num(-2000),
                         Num(7600), Str, NumStr(5000)},
     actuals        |-> {Undefined, Num(-5000), Num(3500), Num(3501), Str},
     endOdometers   |-> {Undefined, Null, Num(0), Num(50000), Num(102600), Str,
                         NumStr(50000)},
     areas          |-> {"Sydney"}]

SeqNext == Handle("s1", SeqInputs)

SeqSpec == Init /\ [][SeqNext]_vars

(***************************************************************************)
(* The server with one request at a time and the route handler; the         *)
(* requests carry coordinates of 0 and every kind of odometer reading.      *)
(***************************************************************************)
\* a step of the route handler in slot s
HandleRoute(s, inputs) ==
    \/ \E pos \in inputs.endPositions, accuracy \in inputs.accuracies :
          RouteRead(s, inputs.limit, pos, accuracy)
    \/ \E saved \in BOOLEAN : RouteSave(s, saved)

\* the number of requests this server receives in a run
RouteRequests == 3

RouteInputs ==
    [limit          |-> RouteRequests,
     startPositions |-> {Sydney, Equator, Greenwich, NoFix},
     endPositions   |-> {Sydney, Equator, Greenwich, NoFix},
     odometers      |-> {Undefined, Null, Num(0), Num(-1000), Num(10700), Str, NumStr(0),
                         NumStr(2500), NumStr(-2500)},
     gpsDistances   |-> {Undefined, Num(7600)},
     actuals        |-> {Undefined},
     endOdometers   |-> {Undefined, Num(-5000), Num(50000)},
     areas          |-> {"Sydney"},
     accuracies     |-> {Undefined, Num(5000)}]

RouteNext == Handle("s1", RouteInputs) \/ HandleRoute("s1", RouteInputs)

RouteSpec == Init /\ [][RouteNext]_vars

(***************************************************************************)
(* The server receiving registrations, two of them in flight at most.       *)
(***************************************************************************)
\* a step of the registration handler in slot s
HandleRegister(s, inputs) ==
    \/ \E email \in inputs.emails, passwordLength \in inputs.passwordLengths,
          fullName \in inputs.fullNames :
          RegisterRead(s, inputs.limit, RegisterRequest(email, passwordLength, fullName))
    \/ \E saved \in BOOLEAN, initialised \in BOOLEAN : RegisterSave(s, saved, initialised)

\* the number of registrations the server receives in a run
RegisterRequests == 3

RegisterInputs ==
    [limit           |-> RegisterRequests,
     emails          |-> {Undefined, Email("", FALSE, FALSE), Email("", FALSE, TRUE),
                          Email("ann", FALSE, FALSE)}
                            \cup {Email(text, upper, padded) :
                                     text \in WellFormed, upper \in BOOLEAN, padded \in BOOLEAN},
     passwordLengths |-> {0, 5, 6, 50, 51},
     fullNames       |-> {"", " ", "Ann"}]

RegisterNext == \E s \in Slots : HandleRegister(s, RegisterInputs)

RegisterSpec == Init /\ [][RegisterNext]_vars

(***************************************************************************)
(* The service worker (public/sw.js): syncTripData, run on the sync event   *)
(* 'trip-data-sync', sends the items of the IndexedDB store tripData to the *)
(* server.  The store and the network are the worker's environment:         *)
(* getStoredTripData is taken by its contract (the stored items, or [] when *)
(* the read fails), and a POST comes back ok, comes back not ok, or fails.  *)
(***************************************************************************)
\* the items the store may hold are 1..MaxItems, by their id
MaxItems == 3

\* the number of runs of syncTripData
SyncRuns == 2

\* the elements of a set of ids in increasing order, as store.getAll() lists them
RECURSIVE InKeyOrder(_)
InKeyOrder(ids) ==
    IF ids = {} THEN <<>>
    ELSE LET least == CHOOSE id \in ids : \A other \in ids : id <= other
         IN  <<least>> \o InKeyOrder(ids \ {least})

\* getStoredTripData()
getStoredTripData(read) == IF read THEN InKeyOrder(tripData) ELSE <<>>

\* removeStoredTripData(id): the store without the item, or as it was when
\* the delete fails (the failure is caught and logged)
removeStoredTripData(id, removed) == IF removed THEN tripData \ {id} ELSE tripData

\* what a POST to /api/trip/sync may come to: response.ok, a response that
\* is not ok, or a rejected fetch
Outcomes == {"ok", "not ok", "failed"}

\* the loop going on to its next item, or the run ending after the last
NextItem(run) ==
    IF run.i < Len(run.storedData)
    THEN [run EXCEPT !.pc = "fetch", !.i = @ + 1]
    ELSE [run EXCEPT !.pc = "idle"]

\* the item the loop stands at
Current(run) == run.storedData[run.i]

SyncInit ==
    /\ userData = [currentOdometer |-> 0, activeTrip |-> Null]
    /\ trips = {}
    /\ clock = 0
    /\ nextDocId = 1
    /\ pc = [s \in Slots |-> "idle"]
    /\ local = [s \in Slots |-> Idle]
    /\ response = [s \in Slots |-> NoResponse]
    /\ requests = 0
    /\ arg = Undefined
    /\ ret = Undefined
    /\ users = {Account(0, Driver)}
    /\ tripData \in SUBSET (1..MaxItems)
    /\ sync = NoRun
    /\ cache = Installed
    /\ events = [e \in Events |-> NoEvent]
    /\ fetches = 0

\* syncTripData up to its loop: the stored items are read
SyncStart(read) ==
    /\ sync.pc = "idle"
    /\ sync.runs < SyncRuns
    /\ LET storedData == getStoredTripData(read)
       IN  sync' = [pc |-> IF Len(storedData) > 0 THEN "fetch" ELSE "idle",
                    storedData |-> storedData,
                    i |-> IF Len(storedData) > 0 THEN 1 ELSE 0,
                    posted |-> <<>>,
                    runs |-> sync.runs + 1]
    /\ UNCHANGED <<userData, trips, clock, nextDocId, pc, local, response, requests, arg, ret,
                   users, tripData, cache, events, fetches>>

SyncFetchAborting(outcome) ==
    /\ sync.pc = "fetch"
    /\ LET sent == [sync EXCEPT !.posted = Append(@, [id |-> Current(sync),
                                                      outcome |-> outcome])]
       IN  sync' = IF outcome = "ok" THEN [sent EXCEPT !.pc = "remove"]
                   ELSE IF outcome = "failed" THEN [sent EXCEPT !.pc = "idle"]
                   ELSE NextItem(sent)
    /\ UNCHANGED <<userData, trips, clock, nextDocId, pc, local, response, requests, arg, ret,
                   users, tripData, cache, events, fetches>>

\* await fetch('/api/trip/sync', ...) for the current item: on response.ok
\* the item is to be removed; a response that is not ok, and a rejected
\* fetch, which the catch inside the loop logs, leave it and the loop goes on
SyncFetch(outcome) ==
    /\ sync.pc = "fetch"
    /\ LET sent == [sync EXCEPT !.posted = Append(@, [id |-> Current(sync),
                                                      outcome |-> outcome])]
       IN  sync' = IF outcome = "ok" THEN [sent EXCEPT !.pc = "remove"] ELSE NextItem(sent)
    /\ UNCHANGED <<userData, trips, clock, nextDocId, pc, local, response, requests, arg, ret,
                   users, tripData, cache, events, fetches>>

\* await removeStoredTripData(tripData.id)
SyncRemove(removed) ==
    /\ sync.pc = "remove"
    /\ tripData' = removeStoredTripData(Current(sync), removed)
    /\ sync' = NextItem(sync)
    /\ UNCHANGED <<userData, trips, clock, nextDocId, pc, local, response, requests, arg, ret,
                   users, cache, events, fetches>>

SyncNext ==
    \/ \E read \in BOOLEAN : SyncStart(read)
    \/ \E outcome \in Outcomes : SyncFetch(outcome)
    \/ \E removed \in BOOLEAN : SyncRemove(removed)

SyncSpec == SyncInit /\ [][SyncNext]_vars

(***************************************************************************)
(* roundDistance alone, called once on a value of RoundDomain.              *)
(***************************************************************************)
\* the largest magnitude of a number of RoundDomain (4 km)
RoundRange == 4000

RoundDomain ==
    {Num(n) : n \in (-RoundRange)..RoundRange} \cup {Undefined, Null, NaN, Str, NumStr(3500)}

RoundInit ==
    /\ userData = [currentOdometer |-> 0, activeTrip |-> Null]
    /\ trips = {}
    /\ clock = 0
    /\ nextDocId = 1
    /\ pc = [s \in Slots |-> "idle"]
    /\ local = [s \in Slots |-> Idle]
    /\ response = [s \in Slots |-> NoResponse]
    /\ requests = 0
    /\ arg \in RoundDomain
    /\ ret = Undefined
    /\ users = {Account(0, Driver)}
    /\ tripData = {}
    /\ sync = NoRun
    /\ cache = Installed
    /\ events = [e \in Events |-> NoEvent]
    /\ fetches = 0

RoundCall ==
    /\ ret = Undefined
    /\ ret' = roundDistance(arg)
    /\ UNCHANGED <<userData, trips, clock, nextDocId, pc, local, response, requests, arg,
                 users, tripData, sync, cache, events, fetches>>

RoundSpec == RoundInit /\ [][RoundCall]_vars

(***************************************************************************)
(* calculateDistance alone, called once on a pair of positions: Sydney,     *)
(* Melbourne and the points of a grid around the equator and the prime      *)
(* meridian.                                                                *)
(***************************************************************************)
\* the grid reaches GridSize steps from (0, 0) in each direction
GridSize == 2

GridPoints ==
    {[latitude |-> Num(i * 22500), longitude |-> Num(j * 45000)] :
        i \in (-GridSize)..GridSize, j \in (-GridSize)..GridSize}

DistDomain == [from : Fixes \cup GridPoints, to : Fixes \cup GridPoints]

DistInit ==
    /\ userData = [currentOdometer |-> 0, activeTrip |-> Null]
    /\ trips = {}
    /\ clock = 0
    /\ nextDocId = 1
    /\ pc = [s \in Slots |-> "idle"]
    /\ local = [s \in Slots |-> Idle]
    /\ response = [s \in Slots |-> NoResponse]
    /\ requests = 0
    /\ arg \in DistDomain
    /\ ret = Undefined
    /\ users = {Account(0, Driver)}
    /\ tripData = {}
    /\ sync = NoRun
    /\ cache = Installed
    /\ events = [e \in Events |-> NoEvent]
    /\ fetches = 0

DistCall ==
    /\ ret = Undefined
    /\ ret' = Num(calculateDistance(arg.from.latitude.v, arg.from.longitude.v,
                                    arg.to.latitude.v, arg.to.longitude.v))
    /\ UNCHANGED <<userData, trips, clock, nextDocId, pc, local, response, requests, arg,
                   users, tripData, sync, cache, events, fetches>>

DistSpec == DistInit /\ [][DistCall]_vars

(***************************************************************************)
(* getSecondsUntilNext1AM alone, called once.  Times are milliseconds from  *)
(* the local midnight of the day of the call.  The environment gives the    *)
(* time `now` of the first new Date(), the milliseconds that pass until the *)
(* second new Date(), and the hours between 1 AM of a day and 1 AM of the   *)
(* next, which are 23 or 25 when the local clock changes in between.        *)
(***************************************************************************)
SecondMs == 1000
HourMs   == 3600 * SecondMs
DayMs    == 24 * HourMs

\* new Date(...).setHours(1, 0, 0, 0): 1 AM of the day the time `date` lies in
OneAMOfDay(date) == (date \div DayMs) * DayMs + HourMs

\* getSecondsUntilNext1AM()
getSecondsUntilNext1AM(now, created, hoursToNext) ==
    LET today1AM == OneAMOfDay(created)
        next1AM  == IF now >= today1AM THEN today1AM + hoursToNext * HourMs ELSE today1AM
        diffMs   == next1AM - now
    IN  diffMs \div SecondMs

\* the times of the model lie within ClockWindow milliseconds of midnight and
\* of 1 AM, and on the hours
ClockWindow == 1200

ClockTimes ==
    (0..ClockWindow) \cup ((HourMs - ClockWindow)..(HourMs + ClockWindow))
        \cup ((DayMs - ClockWindow)..(DayMs - 1)) \cup {h * HourMs : h \in 0..23}

ExpiryDomain == [now : ClockTimes, delay : {0, 1}, hoursToNext : {23, 24, 25}]

ExpiryInit ==
    /\ userData = [currentOdometer |-> 0, activeTrip |-> Null]
    /\ trips = {}
    /\ clock = 0
    /\ nextDocId = 1
    /\ pc = [s \in Slots |-> "idle"]
    /\ local = [s \in Slots |-> Idle]
    /\ response = [s \in Slots |-> NoResponse]
    /\ requests = 0
    /\ arg \in ExpiryDomain
    /\ ret = Undefined
    /\ users = {Account(0, Driver)}
    /\ tripData = {}
    /\ sync = NoRun
    /\ cache = Installed
    /\ events = [e \in Events |-> NoEvent]
    /\ fetches = 0

ExpiryCall ==
    /\ ret = Undefined
    /\ ret' = [seconds |-> getSecondsUntilNext1AM(arg.now, arg.now + arg.delay,
                                                  arg.hoursToNext)]
    /\ UNCHANGED <<userData, trips, clock, nextDocId, pc, local, response, requests, arg,
                   users, tripData, sync, cache, events, fetches>>

ExpirySpec == ExpiryInit /\ [][ExpiryCall]_vars

(***************************************************************************)
(* The service worker's fetch handler.  A page's request raises a fetch     *)
(* event; the handler answers it with event.respondWith(promise).  The      *)
(* network gives a response of some status or fails, and each response      *)
(* carries a new version of the content, so that a response from the cache  *)
(* differs from the one the network gives now.                              *)
(***************************************************************************)
\* the number of responses the network gives in a run
MaxFetches == 3

Methods == {"GET", "POST"}
Statuses == {200, 404}
Requests == [url : Urls, method : Methods]

\* event.request.url.includes('/api/')
IncludesApi(url) == url \in {"/api/trips"}

\* caches.match(request): the response stored for the URL of a GET request,
\* undefined when there is none and for every other method
match(request) == IF request.method = "GET" THEN cache[request.url] ELSE Undefined

\* cache.put(request, response): stores under the URL of a GET request and
\* rejects every other method, which leaves the cache as it was
put(request, stored) ==
    IF request.method = "GET" THEN [cache EXCEPT ![request.url] = stored] ELSE cache

\* the outcomes of fetch(event.request): a response of some status, or a rejection
NetworkOutcomes == {Fetched(status, fetches + 1) : status \in Statuses} \cup {Failed}

\* the outcome the network can give now
Network(outcome) ==
    /\ outcome \in NetworkOutcomes
    /\ outcome # Failed => fetches < MaxFetches
    /\ fetches' = IF outcome = Failed THEN fetches ELSE fetches + 1

\* self.addEventListener('fetch'): the branch on the URL
FetchEvent(e, request) ==
    /\ events[e].pc = "idle"
    /\ events' = [events EXCEPT ![e] =
                     [NoEvent EXCEPT !.request = request,
                                     !.pc = IF IncludesApi(request.url) THEN "api_fetch"
                                                                       ELSE "match"]]
    /\ UNCHANGED <<userData, trips, clock, nextDocId, pc, local, response, requests, arg, ret,
                   users, tripData, sync, cache, fetches>>

\* API branch, mutated: every response of the network is put into the cache
ApiFetchCachingAll(e, outcome) ==
    /\ events[e].pc = "api_fetch"
    /\ Network(outcome)
    /\ events' = [events EXCEPT ![e].network = outcome,
                                ![e].responded = IF outcome = Failed THEN Pending ELSE outcome,
                                ![e].pc = IF outcome = Failed THEN "api_match" ELSE "api_put"]
    /\ UNCHANGED <<userData, trips, clock, nextDocId, pc, local, response, requests, arg, ret,
                   users, tripData, sync, cache>>

\* API branch: fetch(event.request).then(...).catch(...).  A response is
\* returned to the page, and one of status 200 is on its way into the cache;
\* a rejection goes to the catch.
ApiFetch(e, outcome) ==
    /\ events[e].pc = "api_fetch"
    /\ Network(outcome)
    /\ events' = [events EXCEPT ![e].network = outcome,
                                ![e].responded = IF outcome = Failed THEN Pending ELSE outcome,
                                ![e].pc = IF outcome = Failed THEN "api_match"
                                          ELSE IF outcome.status = 200 THEN "api_put"
                                          ELSE "idle"]
    /\ UNCHANGED <<userData, trips, clock, nextDocId, pc, local, response, requests, arg, ret,
                   users, tripData, sync, cache>>

\* caches.open(CACHE_NAME).then((cache) => { cache.put(event.request, responseClone); })
ApiPut(e) ==
    /\ events[e].pc = "api_put"
    /\ cache' = put(events[e].request, events[e].network)
    /\ events' = [events EXCEPT ![e].pc = "idle"]
    /\ UNCHANGED <<userData, trips, clock, nextDocId, pc, local, response, requests, arg, ret,
                   users, tripData, sync, fetches>>

\* .catch(() => { return caches.match(event.request); })
ApiMatch(e) ==
    /\ events[e].pc = "api_match"
    /\ events' = [events EXCEPT ![e].matched = match(events[e].request),
                                ![e].responded = match(events[e].request),
                                ![e].pc = "idle"]
    /\ UNCHANGED <<userData, trips, clock, nextDocId, pc, local, response, requests, arg, ret,
                   users, tripData, sync, cache, fetches>>

\* other requests: caches.match(event.request).then((response) => response || ...)
CacheMatch(e) ==
    /\ events[e].pc = "match"
    /\ LET found == match(events[e].request)
       IN  events' = [events EXCEPT ![e].matched = found,
                                    ![e].responded = IF found = Undefined THEN Pending ELSE found,
                                    ![e].pc = IF found = Undefined THEN "fetch" ELSE "idle"]
    /\ UNCHANGED <<userData, trips, clock, nextDocId, pc, local, response, requests, arg, ret,
                   users, tripData, sync, cache, fetches>>

\* ... || fetch(event.request): what the network gives goes to the page
CacheFetch(e, outcome) ==
    /\ events[e].pc = "fetch"
    /\ Network(outcome)
    /\ events' = [events EXCEPT ![e].network = outcome,
                                ![e].responded = outcome,
                                ![e].pc = "idle"]
    /\ UNCHANGED <<userData, trips, clock, nextDocId, pc, local, response, requests, arg, ret,
                   users, tripData, sync, cache>>

FetchNext ==
    \E e \in Events :
        \/ \E request \in Requests : FetchEvent(e, request)
        \/ \E outcome \in NetworkOutcomes : ApiFetch(e, outcome)
        \/ ApiPut(e)
        \/ ApiMatch(e)
        \/ CacheMatch(e)
        \/ \E outcome \in NetworkOutcomes : CacheFetch(e, outcome)

FetchSpec == Init /\ [][FetchNext]_vars

(***************************************************************************)
(* The claims.                                                              *)
(***************************************************************************)
\* the stages of POST /api/trip/end after the distance was determined
EndStages == {"end_saveTrip", "end_saveUser"}

\* whether the request of slot s carries a user-provided end odometer
Supplied(s) == local[s].req.userProvidedEndOdometer.t \notin {"null", "undefined"}

\* C1: whenever a trip end carries a user-provided end odometer (neither
\* null nor undefined), the distance source is "odometer reading", whatever
\* the GPS distance is.
C1_OdometerReadingFirst ==
    \A s \in Slots :
        pc[s] \in EndStages /\ Supplied(s)
            => local[s].completedTrip.distanceSource = "odometer reading"

\* C1 witness: an end odometer and a GPS distance above 0.01 km in one request
C1_Witness ==
    \E s \in Slots :
        /\ pc[s] \in EndStages
        /\ local[s].req.userProvidedEndOdometer = Num(50000)
        /\ local[s].req.gpsDistance = Num(7600)
        /\ local[s].completedTrip.distanceSource = "odometer reading"

\* C2: in the odometer-reading branch the distance before rounding is the
\* user's end odometer minus the current odometer.
C2_DistanceIsOdometerDifference ==
    \A s \in Slots :
        /\ pc[s] \in EndStages
        /\ local[s].completedTrip.distanceSource = "odometer reading"
        /\ local[s].req.userProvidedEndOdometer.t = "number"
        => local[s].finalDistance
             = Num(local[s].req.userProvidedEndOdometer.v - local[s].currentOdometer)

\* C3: without a user-provided end odometer the distance is the GPS distance
\* (source "GPS tracking") exactly when that is present and above 0.01 km,
\* and else the straight-line distance from the trip's start to the request's
\* coordinates (source "straight-line calculation").
C3_GpsAboveThresholdElseStraightLine ==
    \A s \in Slots :
        pc[s] \in EndStages /\ ~Supplied(s)
            => LET gps  == local[s].req.gpsDistance
                   trip == local[s].completedTrip
               IN  IF gps.t \in {"number", "numstr"} /\ gps.v > GpsThreshold
                   THEN /\ trip.distanceSource = "GPS tracking"
                        /\ local[s].finalDistance = gps
                   ELSE /\ trip.distanceSource = "straight-line calculation"
                        /\ local[s].finalDistance
                             = Num(Distance(trip.startLatitude, trip.startLongitude,
                                            local[s].req.latitude, local[s].req.longitude))

\* C3 witness: a GPS distance of 0.005 km falls back to the straight line
\* from Sydney to Melbourne
C3_Witness ==
    \E s \in Slots :
        /\ pc[s] \in EndStages
        /\ ~Supplied(s)
        /\ local[s].req.gpsDistance = Num(5)
        /\ local[s].completedTrip.distanceSource = "straight-line calculation"
        /\ local[s].finalDistance.v > 700 * Unit

\* C4: roundDistance(x) is floor(x) when x - floor(x) <= 0.5 and ceil(x)
\* otherwise, for every number x, negative ones included: roundDistance(3.5)
\* = 3, roundDistance(3.501) = 4, roundDistance(-1.3) = -1.
C4_RoundHalfDown ==
    ret # Undefined /\ arg.t = "number"
        => LET x     == arg.v
               floor == x - (x % Unit)
               ceil  == IF x % Unit = 0 THEN x ELSE floor + Unit
           IN  /\ ret = Num(IF x - floor <= Half THEN floor ELSE ceil)
               /\ arg = Num(3500) => ret = Num(3000)
               /\ arg = Num(3501) => ret = Num(4000)
               /\ arg = Num(-1300) => ret = Num(-1000)

\* C4 witness: roundDistance was called at the boundary, 3.5
C4_Witness == arg = Num(3500) /\ ret = Num(3000)

\* the new odometer as C5 states it, for the trip end of slot s
C5_NewOdometer(s) ==
    IF Supplied(s)
    THEN roundDistance(local[s].req.userProvidedEndOdometer).v
    ELSE roundDistance(Num(local[s].currentOdometer
                           + roundDistance(local[s].finalDistance).v)).v

\* C5: the new odometer is roundDistance(userEndOdometer) when an end
\* odometer was supplied and else roundDistance(currentOdometer +
\* roundDistance(chosen distance)); the trip is saved with it as endOdometer,
\* and the user's document with it as currentOdometer.
C5_NewOdometerStored ==
    [][\A s \in Slots :
          /\ pc[s] = "end_saveTrip" /\ pc'[s] = "end_saveUser"
                => \E d \in trips' \ trips : d.endOdometer = C5_NewOdometer(s)
          /\ pc[s] = "end_saveUser" /\ response'[s].status = 200
                => userData'.currentOdometer = C5_NewOdometer(s)]_vars

\* C5 witness: a trip ended with an end odometer of 102.6 is stored with 103,
\* the user's odometer too
C5_Witness ==
    \E d \in trips :
        /\ d.endOdometer = 103 * Unit
        /\ userData.currentOdometer = d.endOdometer
        /\ userData.activeTrip = Null

\* C6: a trip finalized without a user-provided end odometer has
\* endOdometer = startOdometer + totalDistance.
C6_EndIsStartPlusDistance ==
    \A s \in Slots :
        pc[s] = "end_saveUser" /\ ~Supplied(s)
            => LET trip == local[s].completedTrip
               IN  trip.endOdometer = trip.startOdometer + trip.totalDistance

\* C7: every finalized trip has totalDistance >= 0.
C7_TotalDistanceNonNegative == \A d \in trips : d.totalDistance >= 0

\* C8: at most one finalized Trip record exists per started trip.
C8_FinalizedOnce == \A d, e \in trips : d.id = e.id => d.docId = e.docId

\* C9, as claimed: a finalized trip stays as it is until it is deleted.
C9_FinalizedImmutable ==
    [][\A d \in trips : d \in trips' \/ ~ \E e \in trips' : e.docId = d.docId]_vars

\* C9, amended: a step leaves every field of a finalized trip other than
\* startArea and endArea as it is, replaces an area only when it was
\* "Unknown Area", and removes the trip only in a DELETE of its id that
\* answers with success.
C9_OnlyMissingAreasChange ==
    [][\A d \in trips :
          \/ \E e \in trips' :
                /\ e.docId = d.docId
                /\ [e EXCEPT !.startArea = d.startArea, !.endArea = d.endArea] = d
                /\ e.startArea # d.startArea => d.startArea = "Unknown Area"
                /\ e.endArea # d.endArea => d.endArea = "Unknown Area"
          \/ /\ ~ \E e \in trips' : e.docId = d.docId
             /\ \E s \in Slots :
                   /\ pc[s] = "idle"
                   /\ response'[s] = Response(200, "Trip deleted successfully")
                   /\ requests' = requests + 1]_vars

\* C9 witness: of two records of one trip, which were finalized with the
\* same start area, the area update gave one an area and left the other
C9_Witness ==
    \E d, e \in trips :
        /\ d.id = e.id
        /\ d.startArea = "Unknown Area"
        /\ e.startArea # "Unknown Area"

\* the trip save of slot s, the database accepting it
EndSaveTripAccepted(s) == EndSaveTrip(s, TRUE) /\ pc'[s] = "end_saveUser"

\* C10: a trip end that passed the coordinate and active-trip checks has a
\* numeric totalDistance and endOdometer and does not end in an error,
\* whatever gpsDistance, actualTravelledDistance and userProvidedEndOdometer
\* were: its trip is saved when the database accepts the save.
C10_EndNeverFails ==
    \A s \in Slots :
        pc[s] = "end_saveTrip"
            => /\ local[s].completedTrip.totalDistance \in Int
               /\ local[s].completedTrip.endOdometer \in Int
               /\ ENABLED EndSaveTripAccepted(s)

\* the positions of the requests that carry both coordinates
PresentPositions == {Sydney, Equator, Greenwich}

\* the handlers going past their coordinate check with the position `pos`
StartAccepts(s, pos) == StartRead(s, RouteRequests, pos, "Sydney") /\ pc'[s] = "start_save"
EndAccepts(s, pos) ==
    /\ EndRead(s, RouteRequests, EndRequest(pos, Undefined, Undefined, Undefined), "Sydney")
    /\ pc'[s] = "end_saveTrip"
RouteAccepts(s, pos) == RouteRead(s, RouteRequests, pos, Undefined) /\ pc'[s] = "route_save"

\* C11: a trip start, trip end or route request is accepted whenever both
\* latitude and longitude are present in it, a latitude or longitude of 0
\* included: with no trip active the start goes on to its save, and with a
\* trip active the end and the route request go on to theirs.
C11_PresentCoordinatesAccepted ==
    \A s \in Slots : \A pos \in PresentPositions :
        pc[s] = "idle" /\ requests < RouteRequests
            => IF userData.activeTrip = Null
               THEN ENABLED StartAccepts(s, pos)
               ELSE ENABLED EndAccepts(s, pos) /\ ENABLED RouteAccepts(s, pos)

\* the saves of slot s going through and writing what the request computed
StartSaveOverwrites(s) ==
    /\ StartSave(s, TRUE)
    /\ response'[s].status = 200
    /\ userData'.activeTrip = local[s].newTrip
EndSaveUserOverwrites(s) ==
    /\ EndSaveUser(s, TRUE)
    /\ response'[s].status = 200
    /\ userData' = [currentOdometer |-> local[s].newEndOdometer, activeTrip |-> Null]

\* C12: nothing guards the user-data record against lost updates.  When the
\* record was changed by another request after a trip start or a trip end
\* read it (a trip became active since the start read none; the odometer is
\* no longer the one the trip end read), the request's save still goes
\* through, the request succeeds, and the other request's change is
\* overwritten.
C12_NoGuardAgainstLostUpdates ==
    \A s \in Slots :
        /\ pc[s] = "start_save" /\ userData.activeTrip # Null
              => ENABLED StartSaveOverwrites(s)
        /\ pc[s] = "end_saveUser" /\ userData.currentOdometer # local[s].currentOdometer
              => ENABLED EndSaveUserOverwrites(s)

\* C12 witness: two trip starts were the only requests, both read no active
\* trip and both succeeded, and one of the two trips is the active one
C12_Witness ==
    /\ requests = 2
    /\ clock = 2
    /\ \A s \in Slots : pc[s] = "idle" /\ response[s] = Response(200, "success")
    /\ userData.activeTrip # Null

\* C13: the straight-line distance is symmetric, calculateDistance(a, b) =
\* calculateDistance(b, a), and zero for identical points,
\* calculateDistance(a, a) = 0.
C13_SymmetricAndZero ==
    ret # Undefined
        => /\ ret = Num(calculateDistance(arg.to.latitude.v, arg.to.longitude.v,
                                          arg.from.latitude.v, arg.from.longitude.v))
           /\ arg.from = arg.to => ret = Num(0)

\* C13 witness: the distance from Sydney to Melbourne, about 713.4 km
C13_Witness ==
    /\ arg = [from |-> Sydney, to |-> Melbourne]
    /\ ret # Undefined
    /\ ret.v > 713 * Unit
    /\ ret.v < 714 * Unit

\* the response to a trip start while a trip is active
StartRefused == Response(400, "Please end current trip before starting a new one")

\* C14: a trip start goes past its checks only when the user's record holds
\* no active trip, and then with a trip whose startOdometer is the
\* currentOdometer it read; a successful start stores that trip as activeTrip;
\* a start answered 400 'Please end current trip before starting a new one'
\* found a trip active and leaves activeTrip and currentOdometer as they were.
C14_StartWhileActiveRefused ==
    [][\A s \in Slots :
          /\ pc[s] = "idle" /\ pc'[s] = "start_save"
                => /\ userData.activeTrip = Null
                   /\ local'[s].newTrip.startOdometer = userData.currentOdometer
          /\ pc[s] = "start_save" /\ pc'[s] = "idle" /\ response'[s].status = 200
                => /\ userData'.activeTrip = local[s].newTrip
                   /\ userData'.currentOdometer = userData.currentOdometer
          /\ \A pos \in Inputs.startPositions, startArea \in Inputs.areas :
                (StartRead(s, MaxRequests, pos, startArea)
                    /\ pc'[s] = "idle" /\ response'[s] = StartRefused)
                => (userData.activeTrip # Null /\ userData' = userData)]_vars

\* C14 witness: a trip started at an odometer of 100 km is active, and a
\* second start was refused
C14_Witness ==
    \E s \in Slots :
        /\ response[s] = StartRefused
        /\ userData.activeTrip # Null
        /\ userData.activeTrip.startOdometer = 100 * Unit

\* C15: a trip end that answers with an error (400 or 500) created no Trip
\* record and leaves activeTrip and currentOdometer as they were; a trip end
\* that created a Trip record or cleared activeTrip answers with success.
C15_ErrorLeavesNoTrace ==
    [][\A s \in Slots :
          /\ (pc[s] \in EndStages /\ pc'[s] = "idle" /\ response'[s].status # 200)
                => (pc[s] = "end_saveTrip" /\ trips' = trips /\ userData' = userData)
          /\ (pc[s] = "end_saveUser" /\ pc'[s] = "idle")
                => response'[s].status = 200
          /\ \A pos \in Inputs.endPositions, endOdometer \in Inputs.endOdometers :
                (EndRead(s, MaxRequests, EndRequest(pos, Num(7600), Num(-5000), endOdometer),
                         "Sydney")
                    /\ pc'[s] = "idle")
                => (response'[s].status = 400 /\ trips' = trips /\ userData' = userData)]_vars

\* C16: the user's currentOdometer is non-negative in every reachable state.
C16_OdometerNonNegative == userData.currentOdometer >= 0

\* the readings C17 calls valid: numeric and non-negative, 0 included
ValidReading(odometer) == odometer.t \in {"number", "numstr"} /\ odometer.v >= 0

\* POST /api/odometer with the reading `odometer`, the database accepting the
\* save: the reading is stored, or the request is refused
OdometerStored(s, odometer) ==
    /\ PostOdometer(s, RouteRequests, odometer, TRUE)
    /\ response'[s].status = 200
    /\ userData' = [userData EXCEPT !.currentOdometer = odometer.v]
OdometerRefused(s, odometer) ==
    /\ PostOdometer(s, RouteRequests, odometer, TRUE)
    /\ response'[s] = Response(400, "Valid odometer reading is required")
    /\ userData' = userData

\* C17: POST /api/odometer sets currentOdometer to the submitted value for
\* every valid reading (numeric, non-negative, 0 included), and answers every
\* other submission (missing, non-numeric, negative) with 400 'Valid odometer
\* reading is required', leaving currentOdometer and activeTrip as they were.
C17_OdometerUpdate ==
    \A s \in Slots : \A odometer \in RouteInputs.odometers :
        pc[s] = "idle" /\ requests < RouteRequests
            => IF ValidReading(odometer)
               THEN ENABLED OdometerStored(s, odometer)
               ELSE ENABLED OdometerRefused(s, odometer)

\* C18: an accepted route request appends its point to the active trip's
\* routePoints, of which the most recent 1000 are kept in acceptance order
\* (the oldest dropped first), and a route request with no active trip is
\* answered 400 and changes nothing.
C18_RoutePointsKept ==
    [][\A s \in Slots :
          /\ (pc[s] = "route_save" /\ pc'[s] = "idle" /\ response'[s].status = 200)
                => /\ userData'.activeTrip # Null
                   /\ Len(RoutePoints(userData'.activeTrip)) <= RoutePointLimit
                   /\ RoutePoints(userData'.activeTrip)
                        = LastN(Append(RoutePoints(userData.activeTrip), local[s].point),
                                RoutePointLimit)
          /\ \A pos \in PresentPositions :
                (RouteRead(s, RouteRequests, pos, Undefined)
                    /\ pc'[s] = "idle" /\ userData.activeTrip = Null)
                => (response'[s].status = 400 /\ userData' = userData /\ trips' = trips)]_vars

\* the response to a registration whose email is taken
EmailTaken == Response(400, "An account with this email already exists")

LastPosted(run) == run.posted[Len(run.posted)]

FirstOneAMAfter(now, hoursToNext) ==
    IF now < HourMs THEN HourMs ELSE HourMs + hoursToNext * HourMs

\* C21: getSecondsUntilNext1AM returns a whole number of seconds d with
\* 0 < d <= 86400 such that now + d is the first 1 AM strictly after now;
\* at exactly 1:00:00 AM it returns 86400, never 0.
C21_SecondsUntilNext1AM ==
    ret # Undefined
        => /\ ret.seconds \in Int
           /\ 0 < ret.seconds
           /\ ret.seconds <= 86400
           /\ arg.now + ret.seconds * SecondMs = FirstOneAMAfter(arg.now, arg.hoursToNext)
           /\ arg.now = HourMs => ret.seconds = 86400

\* the fetch events for API requests and for the others
ApiEvents == {e \in Events : events[e].request # NoRequest /\ IncludesApi(events[e].request.url)}
OtherEvents == {e \in Events : events[e].request # NoRequest /\ ~IncludesApi(events[e].request.url)}

\* network first: a response of the network is what the page gets, and the
\* cache is asked only after the fetch has failed
NetworkFirst(e) ==
    /\ events[e].matched # Pending => events[e].network = Failed
    /\ events[e].responded # Pending
           => events[e].responded = IF events[e].network = Failed THEN events[e].matched
                                    ELSE events[e].network

\* cache first: a cached response is what the page gets, and the network is
\* asked only after the cache had no match
CacheFirst(e) ==
    /\ events[e].network # Pending => events[e].matched = Undefined
    /\ events[e].responded # Pending
           => events[e].responded = IF events[e].matched = Undefined THEN events[e].network
                                    ELSE events[e].matched

\* a step that changes the cache stores the network's response of status
\* 200 to the API request of an event, under the URL of that request
WritesOk ==
    cache' # cache
        => \E e \in ApiEvents :
               /\ events[e].network \notin {Pending, Failed}
               /\ events[e].network.status = 200
               /\ events[e].responded = events[e].network
               /\ cache' = [cache EXCEPT ![events[e].request.url] = events[e].network]

\* C22: the fetch handler is network-first for URLs containing '/api/': a
\* cached response is returned for an API request only when the network fetch
\* fails, and only network responses with status 200 are written to the
\* cache; for all other requests it is cache-first, going to the network only
\* when no cached response matches.
C22_FetchStrategies ==
    /\ [](\A e \in ApiEvents : NetworkFirst(e))
    /\ [](\A e \in OtherEvents : CacheFirst(e))
    /\ [][WritesOk]_vars

\* C22 witness: with an earlier response of status 200 in the cache, the
\* network fails for an API request and the page gets the cached response,
\* while another request found no match in the cache and went to the network
C22_Witness ==
    /\ \E e \in ApiEvents :
           /\ events[e].network = Failed
           /\ events[e].responded \notin {Pending, Undefined}
           /\ events[e].responded = cache[events[e].request.url]
           /\ events[e].responded.status = 200
    /\ \E e \in OtherEvents :
           /\ events[e].matched = Undefined
           /\ events[e].responded \notin {Pending, Failed}

=============================================================================
